---- MODULE Spec2Model ----
(***************************************************************************)
(* State machine of the BlueskyApp component (src/src/BlueskyOauthTest.tsx) *)
(* together with the three collaborators its handlers talk to: the OAuth    *)
(* client (client.init, client.signInPopup), the browser's persistent       *)
(* storage, and the repository server behind createRecord / listRecords /   *)
(* deleteRecord.                                                            *)
(*                                                                          *)
(* Every async handler is split at its awaits.  A handler keeps using the   *)
(* agent and session of the render that created it (a JavaScript closure),  *)
(* so each in-flight call carries the values it captured when it started.   *)
(***************************************************************************)
EXTENDS Integers, Sequences, FiniteSets, TLC

-----------------------------------------------------------------------------
(* Bounds of the model *)

\* in-flight saveLesson / fetchLessons / deleteLesson calls at one time
MaxOps == 2
\* saveLesson calls that pass the login guard (each reads the clock once)
MaxCreates == 1
\* session objects handed out by the OAuth client
MaxSessions == 2

-----------------------------------------------------------------------------
(* Program constants and small input sets *)

LESSON_COLLECTION == "app.piano.user.lesson"

\* limit: 100 of the listRecords request
LIST_LIMIT == 100

SESSION_KEY == "bsky-session"

Handles == {"alice.test", "bob.test"}

DIDs == {"did:a", "did:b"}

\* the identity the handle resolver gives for a handle
Resolve(h) == IF h = "alice.test" THEN "did:a" ELSE "did:b"

\* err.message of a rejected sign-in ("" stands for a missing message)
ErrMessages == {"", "popup closed"}

\* payloads handed to saveLesson: LessonRecord values, notes being optional
Payloads ==
    {[lessonId |-> "lesson-1", completedAt |-> 0, score |-> 87],
     [lessonId |-> "lesson-1", completedAt |-> 0, score |-> 87,
      notes |-> "Test lesson from React app"]}

-----------------------------------------------------------------------------
(* Values *)

NoSession == [did |-> "none", n |-> 0]

NoAgent == [kind |-> "null", sess |-> NoSession]

\* new Agent({ service: "https://bsky.social" })
ServiceAgent == [kind |-> "service", sess |-> NoSession]

NoProfile == "none"

TypeTag == "$type"

NoBody == (TypeTag :> "none")

NoStore == "none"

\* session.did; reading .did of null is a TypeError, shown as "TypeError"
Did(s) == IF s = NoSession THEN "TypeError" ELSE s.did

Min(a, b) == IF a < b THEN a ELSE b

\* the locator at://did/collection/rkey as the segments split("/") yields
Uri(d, c, k) == <<"at:", "", d, c, k>>

\* record.uri.split("/").pop()
RKeyOf(uri) == uri[Len(uri)]

\* new Agent(session)
NewAgent(s) == [kind |-> "oauth", sess |-> s]

\* if (!agent || !session) of the three collection operations
NotLoggedIn(ag, se) == ag = NoAgent \/ se = NoSession

\* an object literal { ...base, ...over }: later keys win
Spread(base, over) ==
    [f \in DOMAIN base \cup DOMAIN over |->
        IF f \in DOMAIN over THEN over[f] ELSE base[f]]

RecordBody_NoTag(p, now) == Spread(p, [createdAt |-> now])

\* the record body saveLesson sends:
\* { $type: LESSON_COLLECTION, ...lessonData, createdAt: new Date().toISOString() }
RecordBody(p, now) ==
    Spread(Spread((TypeTag :> LESSON_COLLECTION), p), [createdAt |-> now])

Request_CurrentDid(method, ag, se, cur) ==
    [method |-> method, agent |-> ag, repo |-> Did(cur),
     collection |-> LESSON_COLLECTION]

\* a request as it leaves the component: the agent it goes through and its
\* address, both taken from the calling handler's closure (ag, se), not from the
\* session current at that moment (cur)
Request(method, ag, se, cur) ==
    [method |-> method, agent |-> ag, repo |-> Did(se),
     collection |-> LESSON_COLLECTION]

NoRequest ==
    [method |-> "none", agent |-> NoAgent, repo |-> "none", collection |-> "none"]

LoginError_Raw(msg) == msg

\* err.message || "Login failed"
LoginError(msg) == IF msg = "" THEN "Login failed" ELSE msg

-----------------------------------------------------------------------------
(* The repository server *)

\* listRecords: the first LIST_LIMIT records of the repository, in its order
ListRecords(repo) == SubSeq(repo, 1, Min(LIST_LIMIT, Len(repo)))

\* createRecord: the server stores the record under a fresh key, newest first
CreateRecord(repo, d, k, body) ==
    <<[uri |-> Uri(d, LESSON_COLLECTION, k), value |-> body]>> \o repo

\* deleteRecord: the record with that key is gone (no error when it is absent)
DeleteRecord(repo, k) == SelectSeq(repo, LAMBDA r : RKeyOf(r.uri) # k)

\* the server writes only for the identity the agent is authorized as;
\* listRecords is a public read
Authorized(req) == req.agent.kind = "oauth" /\ req.agent.sess.did = req.repo

Keys(recs) == {RKeyOf(recs[i].uri) : i \in 1..Len(recs)}

-----------------------------------------------------------------------------
(* The record key of a locator, line 278: record.uri.split("/").pop() *)

\* longest key tried
MaxKeyLen == 2

\* characters a key, an owner or a namespace is made of
KeyChars == {"a", "7", ".", ":"}

Slash == "/"

\* position of the first "/" of s, 0 when it has none
FirstSlash(s) ==
    IF \E i \in 1..Len(s) : s[i] = Slash
    THEN CHOOSE i \in 1..Len(s) : s[i] = Slash /\ \A j \in 1..(i - 1) : s[j] # Slash
    ELSE 0

RECURSIVE Split(_)
\* s.split("/"): the pieces between the slashes, empty ones included
Split(s) ==
    IF FirstSlash(s) = 0
    THEN <<s>>
    ELSE <<SubSeq(s, 1, FirstSlash(s) - 1)>>
            \o Split(SubSeq(s, FirstSlash(s) + 1, Len(s)))

\* array.pop(): the last element
Pop(a) == a[Len(a)]

ExtractKey_FirstPiece(uri) == Split(uri)[1]

\* const rkey = record.uri.split("/").pop()
ExtractKey(uri) == Pop(Split(uri))

\* scheme://owner/namespace/key, character by character
Locator(scheme, owner, namespace, key) ==
    scheme \o <<":", Slash, Slash>> \o owner \o <<Slash>> \o namespace
           \o <<Slash>> \o key

KeysUpTo(n) == UNION {[1..m -> KeyChars] : m \in 0..n}

\* at://did123/app.piano.user.lesson/abc789
ExampleKey == <<"a", "b", "c", "7", "8", "9">>

ExampleLocator ==
    Locator(<<"a", "t">>, <<"d", "i", "d", "1", "2", "3">>,
            <<"a", "p", "p", ".", "p", "i", "a", "n", "o", ".", "u", "s", "e", "r",
              ".", "l", "e", "s", "s", "o", "n">>, ExampleKey)

NoExtraction == [input |-> <<>>, key |-> <<>>, out |-> <<>>, step |-> 0]

\* the locators tried, each with the key it was built from
Locators ==
    {[input |-> ExampleLocator, key |-> ExampleKey, out |-> <<>>, step |-> 0]} \cup
    {[input |-> Locator(<<"a", "t">>, owner, ns, k), key |-> k, out |-> <<>>,
      step |-> 0] :
        owner \in {<<"d", ":", "a">>, <<"d", ":", "b">>},
        ns \in {<<"a", ".", "a">>, <<"7">>},
        k \in KeysUpTo(MaxKeyLen)}

-----------------------------------------------------------------------------
VARIABLES
    agent,        \* useState<Agent | null>
    session,      \* useState<OAuthSession | null>
    profile,      \* useState<ProfileViewDetailed | null>
    lessons,      \* useState<any[]>: the lessons cache
    identifier,   \* login form field
    loading,      \* login form flag
    error,        \* login form message
    initAuth,     \* the on-mount resume: its position, captured agent, result
    login,        \* "popup" while a handleLogin call awaits client.signInPopup
    ops,          \* the collection operations in flight
    clientStore,  \* the session the OAuth client keeps persisted
    localStorage, \* keys present in window.localStorage
    server,       \* the repository of each identity
    nextKey,      \* record keys the server has handed out
    clock,        \* Date readings taken by saveLesson
    nextSession,  \* session objects created so far
    loggedOut,    \* handleLogout ran and no sign-in has succeeded since (history)
    last,         \* what the latest step did (history)
    extraction    \* a locator and the record key cut from it (line 278)

app == <<agent, session, profile, lessons, identifier, loading, error, initAuth,
         login, ops, clientStore, localStorage, server, nextKey, clock,
         nextSession, loggedOut, last>>

vars == <<app, extraction>>

react == <<agent, session, profile, lessons, identifier, loading, error>>

IdleOp ==
    [name |-> "none", pc |-> "idle", ag |-> NoAgent, se |-> NoSession,
     req |-> NoRequest, body |-> NoBody, rkey |-> 0, resp |-> <<>>,
     respOk |-> FALSE,
     lessons0 |-> <<>>, overlap |-> FALSE]

NoEvent ==
    [kind |-> "none", name |-> "none", result |-> "none", cause |-> "none",
     issued |-> {}, op |-> IdleOp, wrote |-> FALSE]

Event(kind, name, result, cause, issued, op, wrote) ==
    [kind |-> kind, name |-> name, result |-> result, cause |-> cause,
     issued |-> issued, op |-> op, wrote |-> wrote]

\* initAuth as the effect of the first render calls it: its agent is that
\* render's, and client.init() starts from what the client has persisted
\* (history: afterLogout, whether handleLogout ran before this call)
InitAuthCalled(store, out) ==
    [pc |-> "called", agent |-> NoAgent, result |-> store, afterLogout |-> out]

\* the state of a freshly mounted component (lines 41-49) and its on-mount effect
Mounted ==
    /\ agent = NoAgent
    /\ session = NoSession
    /\ profile = NoProfile
    /\ lessons = <<>>
    /\ identifier = "alice.test"
    /\ loading = FALSE
    /\ error = ""
    /\ login = "idle"
    /\ ops = {}

Init ==
    /\ Mounted
    /\ clientStore \in {NoStore} \cup DIDs
    /\ initAuth = InitAuthCalled(clientStore, FALSE)
    /\ localStorage = {}
    /\ server = [d \in DIDs |-> <<>>]
    /\ nextKey = 0
    /\ clock = 0
    /\ nextSession = 0
    /\ loggedOut = FALSE
    /\ last = NoEvent
    /\ extraction = NoExtraction

backend == <<server, nextKey, clock>>

\* a call in flight has now run alongside another handler (history: lessons0,
\* the cache the call started from, is kept only while the call runs alone)
Overlapped(o) == [o EXCEPT !.overlap = TRUE, !.lessons0 = <<>>]

-----------------------------------------------------------------------------
(* initAuth, lines 56-77 *)

\* the effect's closure is the one of the first render (line 77: deps []),
\* so the agent tested at line 66 is the captured one; setProfile is reached
\* only when that captured agent is set
InitResolve ==
    /\ initAuth.pc = "called"
    /\ IF initAuth.result # NoStore
       THEN /\ nextSession < MaxSessions
            /\ LET s == [did |-> initAuth.result, n |-> nextSession + 1] IN
               /\ agent' = NewAgent(s)
               /\ session' = s
               /\ profile' = IF initAuth.agent = NoAgent THEN profile ELSE s.did
               /\ nextSession' = nextSession + 1
               /\ ops' = {Overlapped(o) : o \in ops}
               /\ last' = Event("auth", "initAuth", "session", "none", {}, IdleOp,
                                FALSE)
       ELSE /\ UNCHANGED <<agent, session, profile, nextSession, ops>>
            /\ last' = Event("auth", "initAuth", "empty", "none", {}, IdleOp, FALSE)
    /\ initAuth' = [initAuth EXCEPT !.pc = "done"]
    /\ UNCHANGED <<lessons, identifier, loading, error, login, clientStore,
                   localStorage, backend, loggedOut, extraction>>

\* catch (err) { console.error(...) }
InitReject ==
    /\ initAuth.pc = "called"
    /\ initAuth' = [initAuth EXCEPT !.pc = "done"]
    /\ last' = Event("auth", "initAuth", "failed", "none", {}, IdleOp, FALSE)
    /\ UNCHANGED <<react, login, ops, clientStore, localStorage, backend,
                   nextSession, loggedOut, extraction>>

-----------------------------------------------------------------------------
(* the login form, lines 80-100 and 205-225 *)

\* the form is rendered only without a session; its button is disabled while
\* loading.  The user types the identifier h (onChange, line 211) and submits.
HandleLogin(h) ==
    /\ session = NoSession
    /\ ~loading
    /\ login = "idle"
    /\ identifier' = h
    /\ loading' = TRUE
    /\ error' = ""
    /\ login' = "popup"
    /\ last' = NoEvent
    /\ UNCHANGED <<agent, session, profile, lessons, initAuth, ops, clientStore,
                   localStorage, backend, nextSession, loggedOut, extraction>>

\* client.signInPopup resolved: the client has persisted the session it returns
SignInResolve ==
    /\ login = "popup"
    /\ nextSession < MaxSessions
    /\ LET s == [did |-> Resolve(identifier), n |-> nextSession + 1] IN
       /\ agent' = NewAgent(s)
       /\ session' = s
       /\ clientStore' = s.did
    /\ nextSession' = nextSession + 1
    /\ loading' = FALSE
    /\ login' = "idle"
    /\ ops' = {Overlapped(o) : o \in ops}
    /\ loggedOut' = FALSE
    /\ last' = Event("auth", "handleLogin", "session", "none", {}, IdleOp, FALSE)
    /\ UNCHANGED <<profile, lessons, identifier, error, initAuth, localStorage,
                   backend, extraction>>

SignInReject(msg) ==
    /\ login = "popup"
    /\ error' = LoginError(msg)
    /\ loading' = FALSE
    /\ login' = "idle"
    /\ last' = Event("auth", "handleLogin", "failed", "none", {}, IdleOp, FALSE)
    /\ UNCHANGED <<agent, session, profile, lessons, identifier, initAuth, ops,
                   clientStore, localStorage, backend, nextSession, loggedOut,
                   extraction>>

-----------------------------------------------------------------------------
(* handleLogout, lines 103-113; the button is rendered only with a session *)

HandleLogout ==
    /\ session # NoSession
    /\ session' = NoSession
    /\ agent' = ServiceAgent
    /\ localStorage' = localStorage \ {SESSION_KEY}
    /\ ops' = {Overlapped(o) : o \in ops}
    /\ loggedOut' = TRUE
    /\ last' = Event("auth", "handleLogout", "none", "none", {}, IdleOp, FALSE)
    /\ UNCHANGED <<profile, lessons, identifier, loading, error, initAuth, login,
                   clientStore, backend, nextSession, extraction>>

-----------------------------------------------------------------------------
(* a page load: the component is mounted afresh, calls in flight are gone,   *)
(* persistent storage and the server stay                                    *)

Reload ==
    /\ agent' = NoAgent
    /\ session' = NoSession
    /\ profile' = NoProfile
    /\ lessons' = <<>>
    /\ identifier' = "alice.test"
    /\ loading' = FALSE
    /\ error' = ""
    /\ initAuth' = InitAuthCalled(clientStore, loggedOut)
    /\ login' = "idle"
    /\ ops' = {}
    /\ last' = Event("reload", "none", "none", "none", {}, IdleOp, FALSE)
    /\ UNCHANGED <<clientStore, localStorage, backend, nextSession, loggedOut,
                   extraction>>

-----------------------------------------------------------------------------
(* saveLesson, fetchLessons, deleteLesson: lines 116-198 *)

\* what the call hands its caller
Returned(name) ==
    CASE name = "saveLesson" -> "response"
      [] name = "fetchLessons" -> "records"
      [] OTHER -> "undefined"

MutationFailed_Swallow(name) == "undefined"

\* catch of saveLesson rethrows (line 144), catch of deleteLesson only logs (line 196)
MutationFailed(name) == IF name = "saveLesson" THEN "threw" ELSE "undefined"

\* fetchLessons rethrows (line 169); inside deleteLesson its error ends in line 196
FetchFailed(name) == IF name = "deleteLesson" THEN "undefined" ELSE "threw"

SetLessons_Merge(prev, records) == prev \o records

SetLessons_KeepOnEmpty(prev, records) == IF records = <<>> THEN prev ELSE records

\* setLessons(response.data.records)
SetLessons(prev, records) == records

\* the guard's early return: nothing is sent, nothing is thrown
GuardReturn(name) ==
    /\ last' = Event("return", name, "undefined", "notLoggedIn", {}, IdleOp, FALSE)
    /\ UNCHANGED <<react, initAuth, login, ops, clientStore, localStorage, backend,
                   nextSession, loggedOut, extraction>>

\* a call that passed the guard is in flight with the agent and session of its render
Start(name, pc, req, body, rkey) ==
    LET o == [name |-> name, pc |-> pc, ag |-> agent, se |-> session,
              req |-> req, body |-> body, rkey |-> rkey, resp |-> <<>>,
              respOk |-> FALSE, lessons0 |-> IF ops = {} THEN lessons ELSE <<>>,
              overlap |-> (ops # {})]
    IN  /\ Cardinality(ops) < MaxOps
        /\ ops' = {Overlapped(x) : x \in ops} \cup {o}
        /\ last' = Event("request", name, "none", "none", {req}, IdleOp, FALSE)

SaveLesson(p) ==
    IF NotLoggedIn(agent, session)
    THEN GuardReturn("saveLesson")
    ELSE /\ clock < MaxCreates
         /\ Start("saveLesson", "mutate",
                  Request("createRecord", agent, session, session),
                  RecordBody(p, clock + 1), 0)
         /\ clock' = clock + 1
         /\ UNCHANGED <<react, initAuth, login, clientStore, localStorage, server,
                        nextKey, nextSession, loggedOut, extraction>>

FetchLessons ==
    IF NotLoggedIn(agent, session)
    THEN GuardReturn("fetchLessons")
    ELSE /\ Start("fetchLessons", "list",
                  Request("listRecords", agent, session, session), NoBody, 0)
         /\ UNCHANGED <<react, initAuth, login, clientStore, localStorage, backend,
                        nextSession, loggedOut, extraction>>

\* the Delete button hands over the key cut from a cached record's uri (line 278)
DeleteLesson(k) ==
    IF NotLoggedIn(agent, session)
    THEN GuardReturn("deleteLesson")
    ELSE /\ k \in Keys(lessons)
         /\ Start("deleteLesson", "mutate",
                  Request("deleteRecord", agent, session, session), NoBody, k)
         /\ UNCHANGED <<react, initAuth, login, clientStore, localStorage, backend,
                        nextSession, loggedOut, extraction>>

\* the call o is over and the cache is `cache`
Return(o, result, cause, cache, wrote) ==
    /\ lessons' = cache
    /\ ops' = ops \ {o}
    /\ last' = Event("return", o.name, result, cause, {}, o, wrote)

\* the server acknowledged createRecord / deleteRecord; the handler goes on to
\* `await fetchLessons()`, the fetchLessons of its own render
MutationAck(o) ==
    LET req == Request("listRecords", o.ag, o.se, session)
        o2 == [o EXCEPT !.pc = "list", !.req = req,
                        !.rkey = IF o.name = "saveLesson" THEN nextKey + 1 ELSE o.rkey]
    IN  /\ o.pc = "mutate"
        /\ o.req.repo \in DIDs
        /\ Authorized(o.req)
        /\ IF o.name = "saveLesson"
           THEN /\ nextKey' = nextKey + 1
                /\ server' = [server EXCEPT ![o.req.repo] =
                                 CreateRecord(@, o.req.repo, nextKey + 1, o.body)]
           ELSE /\ nextKey' = nextKey
                /\ server' = [server EXCEPT ![o.req.repo] = DeleteRecord(@, o.rkey)]
        /\ IF NotLoggedIn(o.ag, o.se)
           THEN Return(o, Returned(o.name), "none", lessons, FALSE)
           ELSE /\ ops' = (ops \ {o}) \cup {o2}
                /\ last' = Event("request", o.name, "acked", "none", {req}, IdleOp,
                                 FALSE)
                /\ lessons' = lessons
        /\ UNCHANGED <<agent, session, profile, identifier, loading, error,
                       initAuth, login, clientStore, localStorage, clock,
                       nextSession, loggedOut, extraction>>

MutationFail_ThenRefresh(o) ==
    /\ o.pc = "mutate"
    /\ ops' = (ops \ {o}) \cup
                {[o EXCEPT !.pc = "list",
                           !.req = Request("listRecords", o.ag, o.se, session)]}
    /\ last' = Event("request", o.name, "failed", "none",
                     {Request("listRecords", o.ag, o.se, session)}, IdleOp, FALSE)
    /\ UNCHANGED <<react, initAuth, login, clientStore, localStorage, backend,
                   nextSession, loggedOut, extraction>>

\* createRecord / deleteRecord was rejected or lost
MutationFail(o) ==
    /\ o.pc = "mutate"
    /\ Return(o, MutationFailed(o.name),
              IF o.name = "saveLesson" THEN "createRecord" ELSE "deleteRecord",
              lessons, FALSE)
    /\ UNCHANGED <<agent, session, profile, identifier, loading, error, initAuth,
                   login, clientStore, localStorage, backend, nextSession,
                   loggedOut, extraction>>

\* the server answers listRecords with the repository as it is now
ListServe(o) ==
    /\ o.pc = "list"
    /\ o.req.repo \in DIDs
    /\ ops' = (ops \ {o}) \cup
                {[o EXCEPT !.pc = "listed", !.respOk = TRUE,
                           !.resp = ListRecords(server[o.req.repo])]}
    /\ last' = NoEvent
    /\ UNCHANGED <<react, initAuth, login, clientStore, localStorage, backend,
                   nextSession, loggedOut, extraction>>

ListFail(o) ==
    /\ o.pc = "list"
    /\ ops' = (ops \ {o}) \cup {[o EXCEPT !.pc = "listed", !.respOk = FALSE]}
    /\ last' = NoEvent
    /\ UNCHANGED <<react, initAuth, login, clientStore, localStorage, backend,
                   nextSession, loggedOut, extraction>>

\* the answer reaches the component: lines 163-166 or the catch at 167-170
ListDeliver(o) ==
    /\ o.pc = "listed"
    /\ IF o.respOk
       THEN Return(o, Returned(o.name), "none", SetLessons(lessons, o.resp), TRUE)
       ELSE Return(o, FetchFailed(o.name), "listRecords", lessons, FALSE)
    /\ UNCHANGED <<agent, session, profile, identifier, loading, error, initAuth,
                   login, clientStore, localStorage, backend, nextSession,
                   loggedOut, extraction>>

-----------------------------------------------------------------------------
Next ==
    \/ InitResolve
    \/ InitReject
    \/ \E h \in Handles : HandleLogin(h)
    \/ SignInResolve
    \/ \E msg \in ErrMessages : SignInReject(msg)
    \/ HandleLogout
    \/ Reload
    \/ \E p \in Payloads : SaveLesson(p)
    \/ FetchLessons
    \/ \E k \in 1..MaxCreates : DeleteLesson(k)
    \/ \E o \in ops : MutationAck(o)
    \/ \E o \in ops : MutationFail(o)
    \/ \E o \in ops : ListServe(o)
    \/ \E o \in ops : ListFail(o)
    \/ \E o \in ops : ListDeliver(o)

Spec == Init /\ [][Next]_vars

-----------------------------------------------------------------------------
(* The key extraction on its own: any locator, cut once and then cut again *)

InitKey ==
    /\ Mounted
    /\ clientStore = NoStore
    /\ initAuth = InitAuthCalled(clientStore, FALSE)
    /\ localStorage = {}
    /\ server = [d \in DIDs |-> <<>>]
    /\ nextKey = 0
    /\ clock = 0
    /\ nextSession = 0
    /\ loggedOut = FALSE
    /\ last = NoEvent
    /\ extraction \in Locators

\* lessons.map: the key is cut from the record's uri
Extract ==
    /\ extraction.step = 0
    /\ extraction' = [extraction EXCEPT !.out = ExtractKey(extraction.input),
                                        !.step = 1]
    /\ UNCHANGED app

\* the same cut applied to what is already a bare key
ExtractAgain ==
    /\ extraction.step = 1
    /\ extraction' = [extraction EXCEPT !.out = ExtractKey(extraction.out),
                                        !.step = 2]
    /\ UNCHANGED app

NextKey == Extract \/ ExtractAgain

SpecKey == InitKey /\ [][NextKey]_vars

-----------------------------------------------------------------------------
(* Properties *)

\* every request in flight or just sent
AllRequests == {o.req : o \in ops} \cup last.issued

MutationReturned ==
    /\ last.kind = "return"
    /\ last.name \in {"saveLesson", "deleteLesson"}
    /\ ~last.op.overlap

\* what C1 promises about the cache once a create or delete call is over
CacheIsFresh ==
    /\ session # NoSession
    /\ lessons = ListRecords(server[Did(session)])
    /\ last.name = "saveLesson" => last.op.rkey \in Keys(lessons)
    /\ last.name = "deleteLesson" => last.op.rkey \notin Keys(lessons)

C2_Original ==
    last.cause = "notLoggedIn" => (last.result = "threw" /\ last.issued = {})

\* C3 as claimed: no request is started through an agent built from a session
\* that is no longer the current one; in particular not the listRecords refresh
\* after a create or delete that was in flight at logout.
C3_Original ==
    last.kind = "request" => \A r \in last.issued : r.agent.sess = session

\* C4 as claimed: handleLogout leaves no session in memory and none persisted by
\* the OAuth client, so a resume (client.init) started after logout finds none.
C4_Original ==
    /\ last.name = "handleLogout" =>
         (session = NoSession /\ clientStore = NoStore
          /\ SESSION_KEY \notin localStorage)
    /\ (initAuth.pc = "called" /\ initAuth.afterLogout) => initAuth.result = NoStore

C6_RequestsAddressedToOwner ==
    \A r \in AllRequests :
        /\ r.agent.kind = "oauth"
        /\ r.agent.sess # NoSession
        /\ r.repo = r.agent.sess.did
        /\ r.collection = LESSON_COLLECTION

\* a request of an earlier session is in flight while another identity is signed in
C6_Witness ==
    /\ session # NoSession
    /\ \E o \in ops : o.req.method = "listRecords" /\ o.req.repo # session.did

\* C7 as claimed: when deleteRecord fails, deleteLesson raises the error to its
\* caller and the cache is unchanged.
C7_Original ==
    (last.kind = "return" /\ last.cause = "deleteRecord") =>
        (last.result = "threw" /\ ~last.wrote)

\* C8 as claimed: within one page load the session becomes present only by a
\* successful resume or sign-in out of the absent state, becomes absent only by
\* handleLogout, and is never replaced by another session directly.
C8_Original ==
    [][(session' # session /\ last'.kind # "reload")
       => \/ /\ session = NoSession
             /\ last'.name \in {"initAuth", "handleLogin"}
             /\ last'.result = "session"
          \/ /\ session' = NoSession
             /\ last'.name = "handleLogout"]_vars

\* C9: a failed client.signInPopup or client.init changes neither session nor
\* agent; after a failed sign-in the error message is non-empty and loading is
\* false again.
C9_FailedAuthKeepsState ==
    [][(last'.kind = "auth" /\ last'.result = "failed")
       => /\ session' = session
          /\ agent' = agent
          /\ last'.name = "handleLogin" => (error' # "" /\ loading' = FALSE)]_vars

C9_Witness ==
    /\ last.kind = "auth"
    /\ last.name = "handleLogin"
    /\ last.result = "failed"
    /\ error = "Login failed"

C11_BodyCarriesTypeTag ==
    /\ \A o \in ops : o.req.method = "createRecord" =>
          /\ TypeTag \in DOMAIN o.body
          /\ o.body[TypeTag] = LESSON_COLLECTION
          /\ o.body[TypeTag] = o.req.collection
          /\ \E p \in Payloads :
                /\ DOMAIN o.body = DOMAIN p \cup {TypeTag, "createdAt"}
                /\ \A f \in DOMAIN p : o.body[f] = p[f]
          /\ o.body.createdAt \in 1..clock
    /\ (last.kind = "request" /\ last.name = "saveLesson" /\ last.result = "none") =>
          \E o \in ops : o.req \in last.issued /\ o.body.createdAt = clock
    /\ \A d \in DIDs : \A i \in 1..Len(server[d]) :
          /\ TypeTag \in DOMAIN server[d][i].value
          /\ server[d][i].value[TypeTag] = server[d][i].uri[4]

\* a createRecord request for a payload with notes is in flight
C11_Witness ==
    \E o \in ops :
        /\ o.req.method = "createRecord"
        /\ "notes" \in DOMAIN o.body
        /\ o.body[TypeTag] = LESSON_COLLECTION

\* C12: the key cut from a locator scheme://owner/namespace/key is exactly key,
\* and cutting an already bare key gives it back unchanged.
C12_KeyIsLastSegment ==
    /\ extraction.step >= 1 => extraction.out = extraction.key
    /\ extraction.step = 2 => extraction.out = ExtractKey(extraction.key)

\* at://did123/app.piano.user.lesson/abc789 gave abc789, also when cut twice
C12_Witness ==
    /\ extraction.step = 2
    /\ extraction.input = ExampleLocator
    /\ extraction.out = <<"a", "b", "c", "7", "8", "9">>

Mutations == {"saveLesson", "deleteLesson"}

\* the step issued the listRecords request of a saveLesson or deleteLesson call
RefreshStarted ==
    /\ last'.kind = "request"
    /\ last'.name \in Mutations
    /\ \E r \in last'.issued : r.method = "listRecords"

\* the server applied the mutation of call m in this very step
AckedNow(m) ==
    /\ m.pc = "mutate"
    /\ m \notin ops'
    /\ m.name = last'.name
    /\ server' = [server EXCEPT ![m.req.repo] =
                     IF m.name = "saveLesson"
                     THEN CreateRecord(@, m.req.repo, nextKey + 1, m.body)
                     ELSE DeleteRecord(@, m.rkey)]

\* C13: saveLesson and deleteLesson send their listRecords refresh only in the
\* step in which the server acknowledges their createRecord / deleteRecord, and a
\* failed mutation ends the call without any request; hence every refresh in
\* flight belongs to a mutation the server has applied.
C13_RefreshOnlyAfterAck ==
    [][/\ RefreshStarted => (last'.result = "acked" /\ \E m \in ops : AckedNow(m))
       /\ (last'.kind = "return" /\ last'.cause \in {"createRecord", "deleteRecord"}) =>
             /\ last'.issued = {}
             /\ \A o \in ops' : o \in ops
       /\ \A o \in ops' :
             (o.name \in Mutations /\ o.req.method = "listRecords") =>
                IF o.name = "saveLesson"
                THEN o.rkey \in 1..nextKey'
                ELSE o.rkey \notin Keys(server'[o.req.repo])]_vars

\* a deleteLesson call is refreshing after its deleteRecord was acknowledged
C13_Witness ==
    /\ last.kind = "request"
    /\ last.name = "deleteLesson"
    /\ last.result = "acked"
    /\ \E o \in ops : o.name = "deleteLesson" /\ o.pc = "list"

\* C14 as stated: an agent exists exactly when a session is present, the agent
\* that exists was built from the current session, and right after handleLogout
\* no agent remains.
C14_Original ==
    /\ (agent # NoAgent) <=> (session # NoSession)
    /\ agent # NoAgent => agent = NewAgent(session)
    /\ last.name = "handleLogout" => agent = NoAgent

\* the step starts a saveLesson or deleteLesson call past its guard
MutationStarted ==
    /\ last'.kind = "request"
    /\ last'.result = "none"
    /\ last'.name \in Mutations

\* the step applies the list response of the last call of an overlap
OverlapSettled ==
    /\ ops' = {}
    /\ last'.kind = "return"
    /\ last'.wrote
    /\ last'.op.overlap

\* C15 as stated: no createRecord / deleteRecord call starts while another
\* saveLesson or deleteLesson call (its mutation or its refresh) is outstanding,
\* and when the last of several overlapping calls has applied its list response
\* the cache equals the repository it was listed from.
C15_Original ==
    [][/\ MutationStarted => \A o \in ops : o.name \notin Mutations
       /\ OverlapSettled => lessons' = ListRecords(server'[last'.op.req.repo])]_vars

\* the owner a record's locator names
OwnerOf(record) == record.uri[3]

\* C16 as stated: while a session is present, every cached record was listed from
\* the repository of that session's DID.
C16_Original ==
    session # NoSession =>
        \A i \in 1..Len(lessons) : OwnerOf(lessons[i]) = Did(session)

\* C17 as stated: a saveLesson call whose createRecord the server acknowledged
\* returns the response, and a saveLesson call throws only when no record was
\* created (the call's record key is 0 until the server has created its record).
C17_Original ==
    (last.kind = "return" /\ last.name = "saveLesson" /\ last.cause # "notLoggedIn") =>
        /\ last.op.rkey # 0 => last.result = "response"
        /\ last.result = "threw" => last.op.rkey = 0

\* the step is the completion of initAuth's client.init() with a session
ResumeCompleted ==
    /\ initAuth.pc = "called"
    /\ initAuth'.pc = "done"
    /\ last'.name = "initAuth"
    /\ last'.result = "session"

\* C18 as stated: a resume that completes finds no session set by a sign-in and no
\* logout behind it, and after handleLogout the session stays absent until a
\* sign-in succeeds.
C18_Original ==
    [][/\ ResumeCompleted => (session = NoSession /\ ~loggedOut)
       /\ (loggedOut /\ loggedOut') => session' = NoSession]_vars

\* C19 as stated: when initAuth has resumed a session, the agent it checks before
\* getProfile is the agent it has just created, and the profile is stored.
C19_Original ==
    (last.name = "initAuth" /\ last.result = "session") =>
        /\ initAuth.agent = agent
        /\ profile # NoProfile

====
